---- MODULE Spec2Model ----
(***************************************************************************)
(* GeminiAutoGen: the side panel (task orchestrator), the injected content *)
(* script (one instance per dispatched task) and the background service    *)
(* worker (file service), as one state machine.                            *)
(*                                                                         *)
(* Every `await` of the panel's async handlers is a point where another    *)
(* click, message or timer may run, so each handler is a continuation in   *)
(* `threads` that advances one await at a time.                            *)
(***************************************************************************)
EXTENDS Integers, Sequences, FiniteSets, Bags, TLC

\* ------------------------------------------------------------------ bounds
MaxClicks == 3
    \* user clicks (Start / Stop / Reset / file upload)
MaxWorkers == 2
    \* content-script injections over the whole behaviour
MaxTabLoss == 1
    \* tabs closed from outside the extension
MaxRetries == 1
    \* the stored setting settings_maxRetries
DownloadTimeoutTicks == 2
    \* the stored setting settings_downloadTimeout, in poll intervals

MaxSize == 1
    \* final size of a downloaded file, in size units
MaxStemLen == 1
    \* characters of a task name before its extension
MaxOtherFiles == 1
    \* files other programs keep in the source directory
MaxImages == 2
    \* images in the response to one prompt

\* ------------------------------------------------------- program constants
StabilityReads == 3
    \* consecutive identical non-zero size reads that end the stability wait
PollInterval == 1
    \* the poll interval: the unit of time of a download wait

\* A task is known by its name, a string: a sequence of characters.
\* The uploaded file of the main specification: two tasks, "a" and "b".
LoadedFile == << <<"a">>, <<"b">> >>
\* No task (undefined): a value that is the name of no task.
NoTask == <<"undefined">>

\* ------------------------------------------------------- target filenames
Png == <<".", "p", "n", "g">>
Jpg == <<".", "j", "p", "g">>

\* String.prototype.toLowerCase, on the characters of the model.
Lower(c) ==
    CASE c = "B" -> "b"
      [] c = "P" -> "p"
      [] c = "N" -> "n"
      [] c = "G" -> "g"
      [] c = "J" -> "j"
      [] OTHER -> c
toLowerCase(s) == [i \in 1..Len(s) |-> Lower(s[i])]

\* String.prototype.endsWith.
endsWith(s, suffix) ==
    /\ Len(s) >= Len(suffix)
    /\ SubSeq(s, Len(s) - Len(suffix) + 1, Len(s)) = suffix

\* The characters /[^a-z0-9_\-.]/gi leaves alone: ASCII letters of either
\* case, digits, "_", "-" and ".".
Kept(c) == c \in {"a", "b", "p", "n", "g", "j", "B", "P", "N", "G", "J",
                   "0", "_", "-", "."}

\* name.replace(/[^a-z0-9_\-.]/gi, "_")
Sanitize(name) == [i \in 1..Len(name) |-> IF Kept(name[i]) THEN name[i] ELSE "_"]

\* safeName of the Start handler's queue filter (side panel).
safeName(name) ==
    LET replaced == Sanitize(name) IN
    IF /\ ~endsWith(toLowerCase(replaced), Png)
       /\ ~endsWith(toLowerCase(replaced), Jpg)
    THEN replaced \o Png
    ELSE replaced

\* filename of the content script's step 2.
filename(name) ==
    LET replaced == Sanitize(name) IN
    IF /\ ~endsWith(toLowerCase(replaced), Png)
       /\ ~endsWith(toLowerCase(replaced), Jpg)
    THEN replaced \o Png
    ELSE replaced

\* The filenames the tasks of a list may be written under.
TargetsOf(tasks) == {filename(tasks[i]) : i \in DOMAIN tasks}

\* The one conversation URL of the model, and "no URL".
ConvUrl == "chat"
NoUrl == ""
NoTab == 0

ErrorTypes == {"generation", "download", "folder", "locked-url", "untyped"}

VARIABLES
    \* --- side panel (part_000, state block at lines 118-130)
    loadedTasks,            \* sequence of task names
    taskQueue,              \* sequence of task names
    currentIndex,           \* 0-based cursor into taskQueue
    isRunning,
    conversationUrl,
    currentTabId,           \* NoTab models null
    retryCounts,            \* Map<number, number>: function index -> count, 0 = absent
    skippedCount,
    timerActive,            \* timerInterval is set
    uiRunning,              \* updateUI(running): startBtn.disabled = running
    statusText,
    threads,                \* bag of suspended async panel handlers
    clicks,                 \* user clicks so far
    \* --- chrome.storage.local
    storedTask,             \* key currentTask
    storedLockedUrl,        \* key lockedConversationUrl
    \* --- browser
    tabs,                   \* ids of the open tabs
    tabLoss,
    workers,                \* sequence of content-script instances, by injection order
    msgs,                   \* outcome notices in flight to the panel
    \* --- background service worker (part_001) and the two directories
    waits,                  \* running waitForDownloadAndRename calls
    lastFileHash,
    handlesOk,              \* both directory handles stored, permission granted
    source,                 \* files in the source directory
    pendingDownloads,       \* downloads the browser has started, not yet on disk
    output                  \* files in the output directory: filename -> content

panelVars == <<loadedTasks, taskQueue, currentIndex, isRunning, conversationUrl,
               currentTabId, retryCounts, skippedCount, timerActive, uiRunning,
               statusText, threads, clicks>>
storageVars == <<storedTask, storedLockedUrl>>
browserVars == <<tabs, tabLoss, workers, msgs>>
fileVars == <<waits, lastFileHash, handlesOk, source, pendingDownloads, output>>
vars == <<panelVars, storageVars, browserVars, fileVars>>

\* ----------------------------------------------------------------- helpers
T(kind, pc) == [kind |-> kind, pc |-> pc]
Has(t) == BagIn(t, threads)
Retire(t) == threads (-) SetToBag({t})
Then(t, u) == (threads (-) SetToBag({t})) (+) SetToBag({u})
Spawn(b, t) == b (+) SetToBag({t})

\* Indices retryCounts may be keyed by: every TASK_COMPLETE advances
\* currentIndex and each instance sends at most one, so the cursor stays
\* below MaxWorkers + 1.
Indices == 0..(MaxWorkers + 1)
NoRetries == [i \in Indices |-> 0]

NoHash == <<"null">>
Absent == "absent"

\* ------------------------------------------------------------------- Init
\* The panel just opened, with the uploaded tasks and an output directory in
\* which the files named in `present` exist.
InitWith(tasks, present) ==
    /\ loadedTasks = tasks
    /\ taskQueue = << >>
    /\ currentIndex = 0
    /\ isRunning = FALSE
    /\ conversationUrl = NoUrl
    /\ currentTabId = NoTab
    /\ retryCounts = NoRetries
    /\ skippedCount = 0
    /\ timerActive = FALSE
    /\ uiRunning = FALSE
    /\ statusText = "Ready"
    /\ threads = EmptyBag
    /\ clicks = 0
    /\ storedTask = NoTask
    /\ storedLockedUrl \in {ConvUrl, NoUrl}
    /\ tabs = {1}
    /\ tabLoss = 0
    /\ workers = << >>
    /\ msgs = {}
    /\ waits = {}
    /\ lastFileHash = NoHash
    /\ handlesOk \in BOOLEAN
    /\ source = {}
    /\ pendingDownloads = {}
    /\ output = [f \in TargetsOf(tasks) |->
                    IF f \in present THEN "wide" ELSE Absent]

\* The main specification: the two-task file and an empty output directory.
Init == InitWith(LoadedFile, {})

\* Task names an uploaded file may hold: a stem of up to MaxStemLen
\* characters (a letter of either case, or a character that is replaced), then
\* nothing or an extension. The empty name is among them.
StemChars == {"a", "B", "/"}
Stems == UNION {[1..n -> StemChars] : n \in 0..MaxStemLen}
Extensions == {<< >>, Png, <<".", "P", "N", "G">>, Jpg}
Names == {stem \o ext : stem \in Stems, ext \in Extensions}
NameLists == UNION {[1..n -> Names] : n \in 0..Len(LoadedFile)}

\* The specification of the filename rules: any uploaded list of such names,
\* any subset of their files already in the output directory.
InitNames ==
    \E tasks \in NameLists : \E present \in SUBSET TargetsOf(tasks) :
        InitWith(tasks, present)

\* ------------------------------------------------- panel: processNextTask
\* The synchronous head of processNextTask, up to `await storageSet`. The
\* caller passes the state as its own assignments left it.
processNextTask(run, idx, queue, thr, ui, tmr) ==
    IF ~run
    THEN /\ isRunning' = run
         /\ threads' = thr
         /\ uiRunning' = ui
         /\ timerActive' = tmr
         /\ UNCHANGED <<statusText, storedTask>>
    ELSE IF idx >= Len(queue)
    THEN /\ isRunning' = FALSE
         /\ timerActive' = FALSE
         /\ uiRunning' = FALSE
         /\ statusText' = "All Tasks Completed!"
         /\ threads' = thr
         /\ UNCHANGED storedTask
    ELSE /\ isRunning' = run
         /\ uiRunning' = ui
         /\ timerActive' = tmr
         /\ statusText' = "Generating..."
         /\ storedTask' = queue[idx + 1]
         /\ threads' = Spawn(thr, T("processNextTask", "inject"))

\* The reply to WAIT_AND_RENAME: {success, filename?, error?}.
Success(name) == [success |-> TRUE, filename |-> name, error |-> "none"]
Failure(error) == [success |-> FALSE, filename |-> NoTask, error |-> error]
\* No reply yet.
NoReply == [success |-> FALSE, filename |-> NoTask, error |-> "pending"]

\* The images of the page, by src: those of responses that were on the page
\* before the prompt was sent, and those of the response to it.
OldSrcs == {<<"old", 1>>}
NewSrcs == {<<"new", i>> : i \in 1..MaxImages}
Srcs == OldSrcs \cup NewSrcs

\* An element id that is empty or null, and no element.
NoId == ""
NoContainer == "none"

\* A container with nothing in it.
EmptyPage ==
    [busy |-> FALSE, footer |-> "none", loader |-> FALSE,
     images |-> [s \in Srcs |-> "absent"], buttons |-> FALSE]

\* The locals of the generation poll before its first tick. saw is history:
\* the target container as the tick that ended the poll read it.
NoPoll ==
    [lastContainerIdBeforeSend |-> NoId, conversationMatch |-> NoContainer,
     confirmedNewContainerId |-> NoId, responseContainer |-> NoContainer,
     responseBaselineSrcs |-> {}, baselineReady |-> FALSE,
     latestDownloadButtons |-> FALSE, latestNewImages |-> {}, saw |-> EmptyPage]

\* A new content-script instance in tab t. home is history: the tab the
\* instance was injected into, kept until that tab is closed or the next run
\* begins.
NewWorker(t) ==
    [tab |-> t, pc |-> "settings", task |-> NoTask, locked |-> NoUrl,
     phase |-> "generation", reply |-> NoReply,
     promptSent |-> FALSE, downloadClicked |-> FALSE,
     sent |-> 0, outcome |-> "none", home |-> t, poll |-> NoPoll]

\* The rest of processNextTask: the currentTabId check and executeScript.
\* Injection into a tab that no longer exists rejects.
processNextTask_inject ==
    LET t == T("processNextTask", "inject") IN
    /\ Has(t)
    /\ threads' = Retire(t)
    /\ IF currentTabId = NoTab
       THEN /\ statusText' = "Error: No active Gemini tab"
            /\ isRunning' = FALSE
            /\ uiRunning' = FALSE
            /\ UNCHANGED workers
       ELSE IF currentTabId \in tabs
       THEN /\ Len(workers) < MaxWorkers
            /\ workers' = Append(workers, NewWorker(currentTabId))
            /\ UNCHANGED <<statusText, isRunning, uiRunning>>
       ELSE /\ statusText' = "Error: Please refresh Gemini page"
            /\ isRunning' = FALSE
            /\ uiRunning' = FALSE
            /\ UNCHANGED workers
    /\ UNCHANGED <<loadedTasks, taskQueue, currentIndex, conversationUrl,
                   currentTabId, retryCounts, skippedCount, timerActive, clicks,
                   storageVars, tabs, tabLoss, msgs, fileVars>>

\* A content-script instance that has ended keeps only what it did.
Terminal == {"done", "crashed", "killed"}
Ended(rec, pc, outcome) ==
    [rec EXCEPT !.pc = pc, !.outcome = outcome, !.tab = NoTab, !.locked = NoUrl,
                !.phase = "generation", !.reply = NoReply]

\* Closing tab t ends every content-script instance running in it.
KillIn(t) ==
    [w \in DOMAIN workers |->
        LET rec == IF workers[w].tab = t /\ workers[w].pc \notin Terminal
                   THEN Ended(workers[w], "killed", "none")
                   ELSE workers[w]
        IN  IF rec.home = t THEN [rec EXCEPT !.home = NoTab] ELSE rec]

\* The id of a newly created tab: the browser never hands out an id that is
\* still held by an open tab, by currentTabId or by a running instance.
FreshTabId ==
    CHOOSE i \in 1..(MaxWorkers + 3) :
        /\ i \notin tabs
        /\ i # currentTabId
        /\ \A w \in DOMAIN workers : workers[w].tab # i

\* ------------------------------------------------------------ panel: Start
\* startBtn click. The button is disabled while updateUI(true) is in force.
\* The user does not click Start again while the handler is still at work.
StartClick ==
    /\ ~uiRunning
    /\ clicks < MaxClicks
    /\ \A t \in BagToSet(threads) : t.kind # "start"
    /\ clicks' = clicks + 1
    /\ threads' = Spawn(threads, T("start", "getUrl"))
    /\ UNCHANGED <<loadedTasks, taskQueue, currentIndex, isRunning, conversationUrl,
                   currentTabId, retryCounts, skippedCount, timerActive, uiRunning,
                   statusText, storageVars, browserVars, fileVars>>

\* After `await storageGet(["lockedConversationUrl"])`.
Start_getUrl ==
    LET t == T("start", "getUrl") IN
    /\ Has(t)
    /\ IF loadedTasks = << >>
       THEN /\ statusText' = "Please upload a JSON file"
            /\ threads' = Retire(t)
            /\ UNCHANGED conversationUrl
       ELSE IF storedLockedUrl # NoUrl
       THEN /\ conversationUrl' = storedLockedUrl
            /\ threads' = Then(t, T("start", "query"))
            /\ UNCHANGED statusText
       ELSE /\ threads' = Then(t, T("start", "queryActive"))
            /\ UNCHANGED <<conversationUrl, statusText>>
    /\ UNCHANGED <<loadedTasks, taskQueue, currentIndex, isRunning, currentTabId,
                   retryCounts, skippedCount, timerActive, uiRunning, clicks,
                   storageVars, browserVars, fileVars>>

\* Locked URL: after tabsQuery, reuse a tab at that URL or create one and
\* wait for it to load. Every tab of the model is at the conversation URL.
Start_query ==
    LET t == T("start", "query") IN
    /\ Has(t)
    /\ IF tabs # {}
       THEN /\ \E tab \in tabs : currentTabId' = tab
            /\ UNCHANGED tabs
       ELSE /\ currentTabId' = FreshTabId
            /\ tabs' = tabs \cup {FreshTabId}
    /\ statusText' = "Checking existing files..."
    /\ threads' = Then(t, T("start", "list"))
    /\ UNCHANGED <<loadedTasks, taskQueue, currentIndex, isRunning, conversationUrl,
                   retryCounts, skippedCount, timerActive, uiRunning, clicks,
                   storageVars, tabLoss, workers, msgs, fileVars>>

\* No locked URL: after tabsQuery({active: true}).
Start_queryActive ==
    LET t == T("start", "queryActive") IN
    /\ Has(t)
    /\ IF tabs = {}
       THEN /\ statusText' = "Please open gemini.google.com or lock a URL"
            /\ threads' = Retire(t)
            /\ UNCHANGED <<currentTabId, conversationUrl>>
       ELSE /\ \E tab \in tabs : currentTabId' = tab
            /\ conversationUrl' = ConvUrl
            /\ statusText' = "Checking existing files..."
            /\ threads' = Then(t, T("start", "list"))
    /\ UNCHANGED <<loadedTasks, taskQueue, currentIndex, isRunning, retryCounts,
                   skippedCount, timerActive, uiRunning, clicks, storageVars,
                   browserVars, fileVars>>

\* listAllFilesFS: the names in the output directory, [] on any access failure.
listAllFilesFS ==
    IF handlesOk THEN {f \in DOMAIN output : output[f] # Absent} ELSE {}

\* A filter that keeps every task.
FilterQueue_all(tasks, existingFiles) == tasks

\* A filter that hands the kept tasks over in reverse order.
FilterQueue_reversed(tasks, existingFiles) ==
    LET kept == SelectSeq(tasks, LAMBDA n : n # << >> /\ safeName(n) \notin existingFiles)
    IN  [i \in 1..Len(kept) |-> kept[Len(kept) + 1 - i]]

\* loadedTasks.filter(...) of the Start handler: items without a name are
\* dropped, then those whose safeName is in the listing.
FilterQueue(tasks, existingFiles) ==
    SelectSeq(tasks, LAMBDA n : n # << >> /\ safeName(n) \notin existingFiles)

\* After the LIST_ALL_FILES reply: build the queue and start the run.
Start_list ==
    LET t == T("start", "list")
        queue == FilterQueue(loadedTasks, listAllFilesFS)
    IN
    /\ Has(t)
    /\ taskQueue' = queue
    /\ IF queue = << >>
       THEN /\ statusText' = "All tasks completed!"
            /\ threads' = Retire(t)
            /\ UNCHANGED <<currentIndex, retryCounts, skippedCount, isRunning,
                           uiRunning, timerActive, storedTask, workers>>
       ELSE /\ currentIndex' = 0
            /\ retryCounts' = NoRetries
            /\ skippedCount' = 0
            /\ workers' = [w \in DOMAIN workers |->
                              [workers[w] EXCEPT !.home = NoTab]]
            /\ processNextTask(TRUE, 0, queue, Retire(t), TRUE, TRUE)
    /\ UNCHANGED <<loadedTasks, conversationUrl, currentTabId, clicks,
                   storedLockedUrl, tabs, tabLoss, msgs, fileVars>>

\* ------------------------------------------------------------- panel: Stop
StopClick ==
    /\ uiRunning
    /\ clicks < MaxClicks
    /\ clicks' = clicks + 1
    /\ isRunning' = FALSE
    /\ retryCounts' = NoRetries
    /\ skippedCount' = 0
    /\ timerActive' = FALSE
    /\ uiRunning' = FALSE
    /\ statusText' = "Stopped by user"
    /\ UNCHANGED <<loadedTasks, taskQueue, currentIndex, conversationUrl,
                   currentTabId, threads, storageVars, browserVars, fileVars>>

\* ------------------------------------------------------------ panel: Reset
ResetClick ==
    /\ clicks < MaxClicks
    /\ clicks' = clicks + 1
    /\ isRunning' = FALSE
    /\ timerActive' = FALSE
    /\ loadedTasks' = << >>
    /\ taskQueue' = << >>
    /\ currentIndex' = 0
    /\ conversationUrl' = NoUrl
    /\ currentTabId' = NoTab
    /\ retryCounts' = NoRetries
    /\ skippedCount' = 0
    /\ threads' = Spawn(threads, T("reset", "clear"))
    /\ UNCHANGED <<uiRunning, statusText, storageVars, browserVars, fileVars>>

\* storageClear() has completed; RESET_STATE is sent.
Reset_clear ==
    LET t == T("reset", "clear") IN
    /\ Has(t)
    /\ storedTask' = NoTask
    /\ storedLockedUrl' = NoUrl
    /\ threads' = Then(t, T("reset", "background"))
    /\ UNCHANGED <<loadedTasks, taskQueue, currentIndex, isRunning, conversationUrl,
                   currentTabId, retryCounts, skippedCount, timerActive, uiRunning,
                   statusText, clicks, browserVars, fileVars>>

\* A RESET_STATE handler that leaves the recorded hash as it is.
resetState_kept == lastFileHash

\* The recorded hash after RESET_STATE: lastFileHash = null.
resetState == NoHash

\* The background's RESET_STATE handler, and the panel's code after its reply.
Reset_background ==
    LET t == T("reset", "background") IN
    /\ Has(t)
    /\ lastFileHash' = resetState
    /\ statusText' = "Reset complete - Load new tasks to start"
    /\ threads' = Then(t, T("reset", "restore"))
    /\ UNCHANGED <<loadedTasks, taskQueue, currentIndex, isRunning, conversationUrl,
                   currentTabId, retryCounts, skippedCount, timerActive, uiRunning,
                   clicks, storageVars, browserVars, waits, handlesOk, source,
                   pendingDownloads, output>>

\* After the last storageGet: updateUI(false).
Reset_restore ==
    LET t == T("reset", "restore") IN
    /\ Has(t)
    /\ uiRunning' = FALSE
    /\ threads' = Retire(t)
    /\ UNCHANGED <<loadedTasks, taskQueue, currentIndex, isRunning, conversationUrl,
                   currentTabId, retryCounts, skippedCount, timerActive, statusText,
                   clicks, storageVars, browserVars, fileVars>>

\* jsonFileInput change: the file is read and parsed as an array of tasks.
LoadFile ==
    /\ ~uiRunning
    /\ clicks < MaxClicks
    /\ loadedTasks = << >>
    /\ clicks' = clicks + 1
    /\ loadedTasks' = LoadedFile
    /\ UNCHANGED <<taskQueue, currentIndex, isRunning, conversationUrl, currentTabId,
                   retryCounts, skippedCount, timerActive, uiRunning, statusText,
                   threads, storageVars, browserVars, fileVars>>

\* ------------------------------------------------------ panel: recreateTab

\* After `await storageGet(...)`: tabsRemove(currentTabId), then the
\* inter-task interval starts.
recreateTab_remove ==
    LET t == T("recreateTab", "remove") IN
    /\ Has(t)
    /\ IF currentTabId # NoTab
       THEN /\ tabs' = tabs \ {currentTabId}
            /\ workers' = KillIn(currentTabId)
       ELSE UNCHANGED <<tabs, workers>>
    /\ threads' = Then(t, T("recreateTab", "interval"))
    /\ UNCHANGED <<loadedTasks, taskQueue, currentIndex, isRunning, conversationUrl,
                   currentTabId, retryCounts, skippedCount, timerActive, uiRunning,
                   statusText, clicks, storageVars, tabLoss, msgs, fileVars>>

\* The interval has elapsed: unless stopped, tabsCreate({url: conversationUrl}).
\* created = FALSE is a tab that came back without an id.
recreateTab_open ==
    LET t == T("recreateTab", "interval") IN
    /\ Has(t)
    /\ IF ~isRunning
       THEN /\ threads' = Retire(t)
            /\ UNCHANGED <<currentTabId, tabs, statusText, isRunning,
                           uiRunning>>
       ELSE \E created \in BOOLEAN :
            IF created
            THEN /\ currentTabId' = FreshTabId
                 /\ tabs' = tabs \cup {FreshTabId}
                 /\ threads' = Then(t, T("recreateTab", "loading"))
                 /\ UNCHANGED <<statusText, isRunning, uiRunning>>
            ELSE /\ currentTabId' = NoTab
                 /\ statusText' = "Error: Could not create Gemini tab"
                 /\ isRunning' = FALSE
                 /\ uiRunning' = FALSE
                 /\ threads' = Retire(t)
                 /\ UNCHANGED tabs
    /\ UNCHANGED <<loadedTasks, taskQueue, currentIndex, conversationUrl,
                   retryCounts, skippedCount, timerActive, clicks, storageVars,
                   tabLoss, workers, msgs, fileVars>>

\* waitForPageLoad has resolved, on status "complete" or on its timeout: the
\* settle delay starts.
recreateTab_loaded ==
    LET t == T("recreateTab", "loading") IN
    /\ Has(t)
    /\ threads' = Then(t, T("recreateTab", "settle"))
    /\ UNCHANGED <<loadedTasks, taskQueue, currentIndex, isRunning, conversationUrl,
                   currentTabId, retryCounts, skippedCount, timerActive, uiRunning,
                   statusText, clicks, storageVars, browserVars, fileVars>>

\* The settle delay is over: unless stopped, processNextTask().
recreateTab_ready ==
    LET t == T("recreateTab", "settle") IN
    /\ Has(t)
    /\ IF ~isRunning
       THEN /\ threads' = Retire(t)
            /\ UNCHANGED <<isRunning, uiRunning, timerActive, statusText, storedTask>>
       ELSE processNextTask(isRunning, currentIndex, taskQueue, Retire(t),
                            uiRunning, timerActive)
    /\ UNCHANGED <<loadedTasks, taskQueue, currentIndex, conversationUrl,
                   currentTabId, retryCounts, skippedCount, clicks, storedLockedUrl,
                   browserVars, fileVars>>

\* ------------------------------------------ panel: chrome.runtime.onMessage
\* A completion handler that keeps the finished task's retry count.
ClearRetries_kept(counts, index) == counts

\* retryCounts.delete(currentIndex).
ClearRetries(counts, index) == [counts EXCEPT ![index] = 0]

\* TASK_COMPLETE.
OnTaskComplete ==
    \E m \in msgs :
    /\ m.action = "TASK_COMPLETE"
    /\ msgs' = msgs \ {m}
    /\ retryCounts' = ClearRetries(retryCounts, currentIndex)
    /\ skippedCount' = IF m.skipped THEN skippedCount + 1 ELSE skippedCount
    /\ currentIndex' = currentIndex + 1
    /\ IF currentIndex + 1 < Len(taskQueue) /\ isRunning
       THEN /\ statusText' = "Resetting browser context..."
            /\ threads' = Spawn(threads, T("recreateTab", "remove"))
            /\ UNCHANGED <<isRunning, uiRunning, timerActive, storedTask>>
       ELSE processNextTask(isRunning, currentIndex + 1, taskQueue, threads,
                            uiRunning, timerActive)
    /\ UNCHANGED <<loadedTasks, taskQueue, conversationUrl, currentTabId, clicks,
                   storedLockedUrl, tabs, tabLoss, workers, fileVars>>

\* TASK_ERROR: handleTaskError up to `await storageGet(["settings_maxRetries"])`.
OnTaskError ==
    \E m \in msgs :
    /\ m.action = "TASK_ERROR"
    /\ msgs' = msgs \ {m}
    /\ threads' = IF isRunning
                  THEN Spawn(threads, T("handleTaskError", "settings"))
                  ELSE threads
    /\ UNCHANGED <<loadedTasks, taskQueue, currentIndex, isRunning, conversationUrl,
                   currentTabId, retryCounts, skippedCount, timerActive, uiRunning,
                   statusText, clicks, storageVars, tabs, tabLoss,
                   workers, fileVars>>

\* A retry test that gives up one attempt early.
MayRetry_early(currentRetries, maxRetries) == currentRetries + 1 < maxRetries

\* A retry test that allows one attempt too many.
MayRetry_late(currentRetries, maxRetries) == currentRetries <= maxRetries

\* The retry test of handleTaskError.
MayRetry(currentRetries, maxRetries) == currentRetries < maxRetries

\* handleTaskError after the settings read: retry, or halt the run.
handleTaskError ==
    LET t == T("handleTaskError", "settings")
        currentRetries == retryCounts[currentIndex]
    IN
    /\ Has(t)
    /\ IF MayRetry(currentRetries, MaxRetries)
       THEN /\ retryCounts' = [retryCounts EXCEPT ![currentIndex] = currentRetries + 1]
            /\ statusText' = "Resetting browser context..."
            /\ threads' = Then(t, T("recreateTab", "remove"))
            /\ UNCHANGED <<isRunning, timerActive, uiRunning>>
       ELSE /\ statusText' = "Error: task failed"
            /\ isRunning' = FALSE
            /\ timerActive' = FALSE
            /\ uiRunning' = FALSE
            /\ threads' = Retire(t)
            /\ UNCHANGED retryCounts
    /\ UNCHANGED <<loadedTasks, taskQueue, currentIndex, conversationUrl,
                   currentTabId, skippedCount, clicks, storageVars, browserVars,
                   fileVars>>

\* ----------------------------------------------------------------- browser
\* A tab in which an instance is running is closed from outside the extension
\* (the user, a crash).
TabLost ==
    /\ tabLoss < MaxTabLoss
    /\ \E t \in tabs :
        /\ \E w \in DOMAIN workers : workers[w].tab = t
        /\ tabs' = tabs \ {t}
        /\ workers' = KillIn(t)
    /\ tabLoss' = tabLoss + 1
    /\ UNCHANGED <<panelVars, storageVars, msgs, fileVars>>

\* --------------------------------------------- content script (part_002)
\* The UPDATE_STATUS and LOG notices an instance sends are display only and
\* are left out: statusText holds what the panel itself last wrote.

\* runtimeSendMessage of an outcome notice by instance w.
Notice(w, action, skipped, errorType) ==
    [from |-> w, action |-> action, skipped |-> skipped, errorType |-> errorType]

\* The error type the top-level catch reports.
Classify(isTaskError, taskErrorType, folderMessage, phase) ==
    IF isTaskError THEN taskErrorType
    ELSE IF folderMessage THEN "folder"
    ELSE IF phase = "download" THEN "download"
    ELSE "generation"

\* The top-level catch: one TASK_ERROR notice, and the instance ends.
Catch(w, errorType) ==
    /\ workers' = [workers EXCEPT ![w] =
                      Ended([@ EXCEPT !.sent = @ + 1], "done", "error")]
    /\ msgs' = msgs \cup {Notice(w, "TASK_ERROR", FALSE, errorType)}

\* The instance reports TASK_COMPLETE and ends.
Complete(w, skipped) ==
    /\ workers' = [workers EXCEPT ![w] =
                      Ended([@ EXCEPT !.sent = @ + 1], "done",
                            IF skipped THEN "skipped" ELSE "complete")]
    /\ msgs' = msgs \cup {Notice(w, "TASK_COMPLETE", skipped, "none")}

\* 0. Load Settings: the storageGet before the try block. If it rejects, the
\* async function ends with an unhandled rejection.
W_settings(w) ==
    /\ workers[w].pc = "settings"
    /\ \/ workers' = [workers EXCEPT ![w].pc = "getTask"]
       \/ workers' = [workers EXCEPT ![w] = Ended(@, "crashed", "none")]
    /\ UNCHANGED <<panelVars, storageVars, tabs, tabLoss, msgs, fileVars>>

\* 1. Get current task from storage.
W_getTask(w) ==
    /\ workers[w].pc = "getTask"
    /\ IF storedTask = NoTask
       THEN Catch(w, "untyped")
       ELSE /\ workers' = [workers EXCEPT ![w] =
                   [@ EXCEPT !.pc = "skipCheck", !.task = storedTask,
                             !.locked = storedLockedUrl]]
            /\ UNCHANGED msgs
    /\ UNCHANGED <<panelVars, storageVars, tabs, tabLoss, fileVars>>

\* An existence check that finds nothing.
checkFileExistsFS_never(name) == FALSE

\* checkFileExistsFS: false when the output handle is missing or unauthorised.
checkFileExistsFS(name) ==
    handlesOk /\ name \in DOMAIN output /\ output[name] # Absent

\* 3. The CHECK_FILE_EXISTS reply, then the locked-URL checks.
W_skipCheck(w) ==
    /\ workers[w].pc = "skipCheck"
    /\ IF checkFileExistsFS(filename(workers[w].task))
       THEN Complete(w, TRUE)
       ELSE IF workers[w].locked = NoUrl
       THEN Catch(w, Classify(TRUE, "locked-url", FALSE, workers[w].phase))
       ELSE /\ workers' = [workers EXCEPT ![w].pc = "waitInput"]
            /\ UNCHANGED msgs
    /\ UNCHANGED <<panelVars, storageVars, tabs, tabLoss, fileVars>>

\* 4 - 7. The DOM waits. Each is a waitFor (or the stability loop) with a
\* timeout: it either meets its condition or throws a plain Error.
W_wait(w, from, to) ==
    /\ workers[w].pc = from
    /\ \/ /\ workers' = [workers EXCEPT ![w] =
                 [@ EXCEPT !.pc = to,
                           !.promptSent = @ \/ (from = "waitSend"),
                           !.phase = IF from = "generating" THEN "download" ELSE @]]
          /\ UNCHANGED msgs
       \/ Catch(w, Classify(FALSE, "none", FALSE, workers[w].phase))
    /\ UNCHANGED <<panelVars, storageVars, tabs, tabLoss, fileVars>>

\* Input field, then old content stable, then the prompt typed.
W_waitInput(w) == W_wait(w, "waitInput", "waitSend")
\* Send control enabled: it is clicked.
W_waitSend(w) == W_wait(w, "waitSend", "generating")
\* Input cleared, prompt anchor rendered, response ready with a new image.
W_generating(w) == W_wait(w, "generating", "download")

\* What a tick of the generation poll reads in its target container: aria-busy,
\* the response footer ("none" when there is none), a visible loader, the
\* generated-image candidates and whether an enabled download button is found.
\* An image is "loading" (not yet loaded), "hidden" (loaded, wider than 100
\* naturally, but not visible or not wider than 100 as laid out) or "shown"
\* (loaded, visible and wider than 100); a loaded image carries the class
\* "loaded".
ImageStates == {"absent", "loading", "hidden", "shown"}
Pages ==
    [busy : BOOLEAN, footer : {"none", "complete", "incomplete"}, loader : BOOLEAN,
     images : [Srcs -> ImageStates], buttons : BOOLEAN]
ImagesIn(page, states) == {s \in Srcs : page.images[s] \in states}

\* The conversation containers that were on the page before the prompt was
\* sent, when the last of them has an id: that one and an earlier one.
PreSendContainers(lastId) == IF lastId = NoId THEN {} ELSE {"earlier", lastId}

\* A container holds the images of its own response only.
PagesOf(container) ==
    LET own == IF container \in {"earlier", "last"} THEN OldSrcs ELSE NewSrcs
    IN  {page \in Pages : \A s \in Srcs \ own : page.images[s] = "absent"}

\* getResponseReadyState(container).ready.
getResponseReadyState(page) ==
    /\ ~page.busy
    /\ page.footer # "incomplete"
    /\ ~page.loader
    /\ (ImagesIn(page, {"hidden", "shown"}) # {} \/ page.footer = "complete")

\* The first part of a tick: the container lookups. match is the id of the
\* container findConversationByPrompt returns (NoContainer: no match, NoId: a
\* container without id), resolved the container resolveResponseContainer
\* returns, connected whether the response container held so far is still in
\* the document.
Locate(p, match, resolved, connected) ==
    LET isNewContainer ==
            p.lastContainerIdBeforeSend = NoId \/ match # p.lastContainerIdBeforeSend
        accept ==
            /\ (p.conversationMatch = NoContainer \/ p.confirmedNewContainerId = NoId)
            /\ match # NoContainer
            /\ isNewContainer
            /\ match # NoId
        p1 == IF accept
              THEN [p EXCEPT !.confirmedNewContainerId = match,
                             !.conversationMatch = match]
              ELSE p
        p2 == IF resolved # NoContainer /\ resolved # p1.responseContainer
              THEN [p1 EXCEPT !.responseContainer = resolved,
                              !.responseBaselineSrcs = {},
                              !.baselineReady = FALSE]
              ELSE p1
    IN  IF p2.responseContainer # NoContainer /\ resolved = NoContainer /\ ~connected
        THEN [p2 EXCEPT !.responseContainer = NoContainer]
        ELSE p2

\* conversationMatch?.container || responseContainer.
TargetContainer(p) ==
    IF p.conversationMatch # NoContainer THEN p.conversationMatch
    ELSE p.responseContainer

\* hasNewImage: newImages, or an empty baseline with scopedLoadedImages, or
\* loadedImages.
hasNewImage(page, baseline) ==
    \/ ImagesIn(page, {"shown"}) \ baseline # {}
    \/ (baseline = {} /\ ImagesIn(page, {"hidden", "shown"}) # {})
    \/ ImagesIn(page, {"shown"}) # {}

\* The second part of a tick, with a target container: the baseline is taken
\* once, then the ready state, the images and the buttons are examined. The
\* result is the locals after the tick and the value the tick returns.
Examine(p, page) ==
    LET baseline == IF p.baselineReady THEN p.responseBaselineSrcs
                    ELSE ImagesIn(page, {"loading", "hidden", "shown"})
        p1 == [p EXCEPT !.responseBaselineSrcs = baseline, !.baselineReady = TRUE]
        newImages == ImagesIn(page, {"shown"}) \ baseline
        p2 == [p1 EXCEPT !.latestDownloadButtons = page.buttons,
                         !.latestNewImages = IF newImages # {} THEN newImages
                                             ELSE ImagesIn(page, {"shown"})]
    IN  IF ~getResponseReadyState(page)
        THEN [poll |-> p1, done |-> FALSE]
        ELSE IF page.buttons /\ hasNewImage(page, baseline)
        THEN [poll |-> [p2 EXCEPT !.responseContainer = TargetContainer(p2),
                                  !.saw = page],
              done |-> TRUE]
        ELSE [poll |-> p2, done |-> FALSE]

\* One tick of the generation poll of instance w, on what the page shows at
\* that moment, or the poll's timeout.
W_pollTick(w) ==
    /\ workers[w].pc = "generating"
    /\ \/ \E match \in {NoContainer, NoId, "new"}
                         \cup PreSendContainers(workers[w].poll.lastContainerIdBeforeSend),
             resolved \in {NoContainer, "r1", "r2"},
             connected \in BOOLEAN :
          LET p == Locate(workers[w].poll, match, resolved, connected) IN
          /\ IF TargetContainer(p) = NoContainer
             THEN workers' = [workers EXCEPT ![w].poll = p]
             ELSE \E page \in PagesOf(TargetContainer(p)) :
                  LET r == Examine(p, page) IN
                  workers' = [workers EXCEPT ![w] =
                      [@ EXCEPT !.poll = r.poll,
                                !.pc = IF r.done THEN "download" ELSE @,
                                !.phase = IF r.done THEN "download" ELSE @]]
          /\ UNCHANGED msgs
       \/ Catch(w, Classify(FALSE, "none", FALSE, workers[w].phase))
    /\ UNCHANGED <<panelVars, storageVars, tabs, tabLoss, fileVars>>

\* 8. performDownload: the download control is clicked (or not found), then
\* WAIT_AND_RENAME is sent to the background. The fields prev, same and found
\* of a call are history, not program state.
NoBytes == "none"
NewWait(w, targetFilename) ==
    [w |-> w, target |-> targetFilename, pc |-> "start", elapsed |-> 0,
     baseline |-> {}, cand |-> 0, lastSize |-> 0, stable |-> 0,
     bytes |-> NoBytes, prev |-> 0, same |-> 0, found |-> {}]

W_download(w) ==
    /\ workers[w].pc = "download"
    /\ \/ /\ workers' = [workers EXCEPT ![w] =
                 [@ EXCEPT !.pc = "waitFile", !.downloadClicked = TRUE]]
          /\ pendingDownloads' = pendingDownloads \cup {w}
          /\ waits' = waits \cup {NewWait(w, filename(workers[w].task))}
          /\ UNCHANGED msgs
       \/ /\ Catch(w, Classify(TRUE, "generation", FALSE, workers[w].phase))
          /\ UNCHANGED <<pendingDownloads, waits>>
    /\ UNCHANGED <<panelVars, storageVars, tabs, tabLoss, lastFileHash, handlesOk,
                   source, output>>

\* isFolderAuthErrorMessage, on the error texts the background returns.
isFolderAuthErrorMessage(error) == error \in {"missing-handles", "iteration-unsupported"}

\* The WAIT_AND_RENAME reply has arrived.
W_fileConfirmed(w) ==
    /\ workers[w].pc = "waitFile"
    /\ workers[w].reply # NoReply
    /\ IF workers[w].reply.success
       THEN Complete(w, FALSE)
       ELSE Catch(w, Classify(TRUE,
                              IF isFolderAuthErrorMessage(workers[w].reply.error)
                              THEN "folder" ELSE "download",
                              FALSE, workers[w].phase))
    /\ UNCHANGED <<panelVars, storageVars, tabs, tabLoss, fileVars>>

\* ------------------------------------------------ the browser's downloads
\* Image files the browser may deliver, by what they show.
Contents == {"wide", "odd", "square", "edge"}

\* isPreferredGeminiFilename and isImageFilename, on what the model keeps of
\* a file's name: whether it starts with "Gemini_Generated_Image" or
\* "Gemini_Image", and whether it ends in .png, .jpg, .jpeg or .webp.
isPreferredGeminiFilename(f) == f.gemini
isImageFilename(f) == f.image

\* A started download appears in the source directory, empty at first, under
\* the name Gemini gives its images.
DownloadLands ==
    \E d \in pendingDownloads, c \in Contents :
    /\ pendingDownloads' = pendingDownloads \ {d}
    /\ source' = source \cup {[id |-> d, size |-> 0, content |-> c,
                                gemini |-> TRUE, image |-> TRUE]}
    /\ UNCHANGED <<panelVars, storageVars, browserVars, waits, lastFileHash,
                   handlesOk, output>>

\* More bytes of a file in the source directory are written.
DownloadGrows ==
    \E f \in source :
    /\ f.size < MaxSize
    /\ source' = (source \ {f}) \cup {[f EXCEPT !.size = @ + 1]}
    /\ UNCHANGED <<panelVars, storageVars, browserVars, waits, lastFileHash,
                   handlesOk, pendingDownloads, output>>

\* ------------------------------------- background: waitForDownloadAndRename
Min(a, b) == IF a < b THEN a ELSE b
Max(a, b) == IF a > b THEN a ELSE b

\* Math.round of n / 10, for n >= 0.
RoundTenth(n) == (n + 5) \div 10

\* A poll that accepts any new image file from its first turn.
allowAnyImageAfter_atOnce(timeout, interval) == 0

\* Time after which any new image file is accepted, not only Gemini-named ones.
allowAnyImageAfter(timeout, interval) ==
    Min(timeout, Max(RoundTenth(timeout), interval * 5))

\* A timeout that is noticed one poll late.
downloadTimeout_late == (DownloadTimeoutTicks + 1) * PollInterval

\* settings_downloadTimeout, in the unit of the poll interval.
downloadTimeout == DownloadTimeoutTicks * PollInterval

\* Pixel size of the image a file holds: ratios 1.78, 1.3, 1.02 and 1.15.
Width(content) ==
    CASE content = "wide" -> 1920
      [] content = "odd" -> 1300
      [] content = "square" -> 1020
      [] content = "edge" -> 1150
Height(content) == IF content = "wide" THEN 1080 ELSE 1000

\* Bytes that are not an image: createImageBitmap rejects them.
Undecodable == "garbled"

\* createImageBitmap(file) resolves: the bytes hold an image.
Decodes(content) == content \in Contents

\* A gate that rejects only exact squares.
IsSquare_exactOnly(width, height) == width = height

\* Math.abs(width / height - 1.0) < 0.15 as IEEE doubles compute it. The
\* result is that of exact arithmetic except at width / height = 23 / 20:
\* 1.15 - 1.0 rounds to 0.1499999999999999, which is below 0.15, while at
\* 17 / 20 the difference rounds to 0.15000000000000002.
IsSquare(width, height) ==
    LET d == IF width >= height THEN width - height ELSE height - width
    IN  \/ 20 * d < 3 * height
        \/ 20 * d = 3 * height /\ width > height

\* SHA-256 of the file's bytes: equal exactly for equal contents.
calculateFileHash(content) == <<"sha256", content>>

\* A duplicate test that never fires.
IsDuplicate_never(last, fileHash) == FALSE

\* lastFileHash && fileHash === lastFileHash
IsDuplicate(last, fileHash) == last # NoHash /\ fileHash = last

\* A move to the output directory that writes nothing.
WriteFile_lost(dir, name, bytes) == dir

\* getFileHandle(name, {create: true}), createWritable, write, close.
WriteFile(dir, name, bytes) == [dir EXCEPT ![name] = bytes]

\* The promise of waitForDownloadAndRename resolves: sendResponse(result).
\* The reply reaches the instance only if it is still there.
Return(wt, result) ==
    /\ waits' = waits \ {wt}
    /\ workers' = IF workers[wt.w].pc = "waitFile"
                  THEN [workers EXCEPT ![wt.w].reply = result]
                  ELSE workers

\* A baseline snapshot that records nothing.
initialFiles_empty(files) == {}

\* initialFiles: the names of the image files in the source directory.
initialFiles(files) == {f.id : f \in {g \in files : isImageFilename(g)}}

\* The handles are fetched and the baseline snapshot of the source taken.
\* found is every file that was there.
B_start(wt) ==
    /\ wt.pc = "start"
    /\ IF ~handlesOk
       THEN Return(wt, Failure("missing-handles"))
       ELSE /\ waits' = (waits \ {wt}) \cup
                    {[wt EXCEPT !.pc = "poll",
                                !.baseline = initialFiles(source),
                                !.found = {f.id : f \in source}]}
            /\ UNCHANGED workers
    /\ UNCHANGED <<panelVars, storageVars, tabs, tabLoss, msgs,
                   lastFileHash, handlesOk, source, pendingDownloads, output>>

\* One turn of the poll loop: the timeout test at its head, the sleep, the scan.
NewFiles(wt, elapsed) ==
    {f \in source :
        /\ isImageFilename(f)
        /\ f.id \notin wt.baseline
        /\ \/ isPreferredGeminiFilename(f)
           \/ elapsed >= allowAnyImageAfter(downloadTimeout, PollInterval)}

B_poll(wt) ==
    /\ wt.pc = "poll"
    /\ IF wt.elapsed >= downloadTimeout
       THEN Return(wt, Failure("timeout"))
       ELSE LET elapsed == wt.elapsed + PollInterval IN
            /\ IF NewFiles(wt, elapsed) = {}
               THEN waits' = (waits \ {wt}) \cup {[wt EXCEPT !.elapsed = elapsed]}
               ELSE \E f \in NewFiles(wt, elapsed) :
                    waits' = (waits \ {wt}) \cup
                        {[wt EXCEPT !.elapsed = elapsed, !.pc = "stabilize",
                                    !.cand = f.id, !.lastSize = 0, !.stable = 0]}
            /\ UNCHANGED workers
    /\ UNCHANGED <<panelVars, storageVars, tabs, tabLoss, msgs,
                   lastFileHash, handlesOk, source, pendingDownloads, output>>

\* A stability loop that ends one stable read early.
IsStable_early(stable) == stable + 1 >= StabilityReads

\* The stableCount a size read leaves, and the loop's exit test.
StableAfter(stable, lastSize, present, size) ==
    IF present /\ size = lastSize /\ size > 0 THEN stable + 1 ELSE 0
IsStable(stable) == stable >= StabilityReads

\* One turn of the size-stability loop: the sleep, then one read. The fields
\* prev and same are history, not program state: the size the previous read
\* returned (0 if it failed or the file was empty) and the number of
\* identical non-zero reads in a row up to now.
B_stabilize(wt) ==
    /\ wt.pc = "stabilize"
    /\ LET present == \E f \in source : f.id = wt.cand
           size == IF present
                   THEN (CHOOSE f \in source : f.id = wt.cand).size
                   ELSE 0
           stable == StableAfter(wt.stable, wt.lastSize, present, size)
           lastSize == IF present /\ stable = 0 THEN size ELSE wt.lastSize
           read == present /\ size > 0
       IN  waits' = (waits \ {wt}) \cup
               {[wt EXCEPT !.stable = stable,
                           !.lastSize = lastSize,
                           !.prev = IF read THEN size ELSE 0,
                           !.same = IF ~read THEN 0
                                    ELSE IF size = wt.prev THEN wt.same + 1
                                    ELSE 1,
                           !.pc = IF IsStable(stable) THEN "validate" ELSE @]}
    /\ UNCHANGED <<panelVars, storageVars, browserVars, lastFileHash, handlesOk,
                   source, pendingDownloads, output>>

\* Aspect-ratio check, then the file is read and hashed and the duplicate
\* check made. The bytes read are held by the call from here on.
B_validate(wt) ==
    /\ wt.pc = "validate"
    /\ IF ~(\E f \in source : f.id = wt.cand)
       THEN /\ Return(wt, Failure("write-failure"))
            /\ UNCHANGED source
       ELSE LET f == CHOOSE g \in source : g.id = wt.cand
                fileHash == calculateFileHash(f.content)
            IN
            IF /\ Decodes(f.content)
               /\ IsSquare(Width(f.content), Height(f.content))
            THEN /\ source' = source \ {f}
                 /\ Return(wt, Failure("aspect-ratio"))
            ELSE IF IsDuplicate(lastFileHash, fileHash)
            THEN /\ source' = source \ {f}
                 /\ Return(wt, Failure("duplicate"))
            ELSE /\ waits' = (waits \ {wt}) \cup
                         {[wt EXCEPT !.pc = "move", !.bytes = f.content]}
                 /\ UNCHANGED <<source, workers>>
    /\ UNCHANGED <<panelVars, storageVars, tabs, tabLoss, msgs, output,
                   lastFileHash, handlesOk, pendingDownloads>>

\* 5. Move file to output: the bytes are written under the target filename and
\* committed, then sourceHandle.removeEntry(newFile). If the entry is gone by
\* then removeEntry rejects: the catch returns a failure and the hash is not
\* recorded.
B_move(wt) ==
    /\ wt.pc = "move"
    /\ output' = WriteFile(output, wt.target, wt.bytes)
    /\ IF \E f \in source : f.id = wt.cand
       THEN /\ source' = {f \in source : f.id # wt.cand}
            /\ lastFileHash' = calculateFileHash(wt.bytes)
            /\ Return(wt, Success(wt.target))
       ELSE /\ Return(wt, Failure("write-failure"))
            /\ UNCHANGED <<source, lastFileHash>>
    /\ UNCHANGED <<panelVars, storageVars, tabs, tabLoss, msgs,
                   handlesOk, pendingDownloads>>

\* ------------------------------------------------------------------- Next
Next ==
    \/ StartClick
    \/ Start_getUrl
    \/ Start_query
    \/ Start_queryActive
    \/ Start_list
    \/ StopClick
    \/ ResetClick
    \/ Reset_clear
    \/ Reset_background
    \/ Reset_restore
    \/ LoadFile
    \/ processNextTask_inject
    \/ recreateTab_remove
    \/ recreateTab_open
    \/ recreateTab_loaded
    \/ recreateTab_ready
    \/ OnTaskComplete
    \/ OnTaskError
    \/ handleTaskError
    \/ TabLost
    \/ \E w \in DOMAIN workers : W_settings(w)
    \/ \E w \in DOMAIN workers : W_getTask(w)
    \/ \E w \in DOMAIN workers : W_skipCheck(w)
    \/ \E w \in DOMAIN workers : W_waitInput(w)
    \/ \E w \in DOMAIN workers : W_waitSend(w)
    \/ \E w \in DOMAIN workers : W_generating(w)
    \/ \E w \in DOMAIN workers : W_download(w)
    \/ \E w \in DOMAIN workers : W_fileConfirmed(w)
    \/ DownloadLands
    \/ DownloadGrows
    \/ \E wt \in waits : B_start(wt)
    \/ \E wt \in waits : B_poll(wt)
    \/ \E wt \in waits : B_stabilize(wt)
    \/ \E wt \in waits : B_validate(wt)
    \/ \E wt \in waits : B_move(wt)

Spec == Init /\ [][Next]_vars

\* ------------------------------------------- the source directory's users
\* The source directory is the browser's download folder: other programs and
\* the user put files there and take them away. Such a file has any name and
\* any bytes, and may still be growing.

\* A file is known by its name. The names of such files are numbered after
\* those of the downloads, four to a file: one for each answer of
\* isPreferredGeminiFilename and isImageFilename.
OtherIds == (MaxWorkers + 1)..(MaxWorkers + 4 * MaxOtherFiles)
GeminiNamed(id) == ((id - MaxWorkers - 1) \div 2) % 2 = 1
ImageNamed(id) == (id - MaxWorkers - 1) % 2 = 1
\* What such a file may hold: a wide image, a square one, or no image.
OtherContents == {"wide", "square", Undecodable}

FileAppears ==
    \E id \in OtherIds, size \in 0..MaxSize, c \in OtherContents :
    /\ \A f \in source : f.id # id
    /\ Cardinality({f \in source : f.id \in OtherIds}) < MaxOtherFiles
    /\ source' = source \cup {[id |-> id, size |-> size, content |-> c,
                                gemini |-> GeminiNamed(id),
                                image |-> ImageNamed(id)]}
    /\ UNCHANGED <<panelVars, storageVars, browserVars, waits, lastFileHash,
                   handlesOk, pendingDownloads, output>>

\* A file of the source directory is deleted or moved away from outside.
FileRemoved ==
    \E f \in source :
    /\ source' = source \ {f}
    /\ UNCHANGED <<panelVars, storageVars, browserVars, waits, lastFileHash,
                   handlesOk, pendingDownloads, output>>

\* An instance of tab t that is about to click the download control for task
\* n, and one that has completed task n.
Downloading(t, n) ==
    [tab |-> t, pc |-> "download", task |-> n, locked |-> ConvUrl,
     phase |-> "download", reply |-> NoReply,
     promptSent |-> TRUE, downloadClicked |-> FALSE,
     sent |-> 0, outcome |-> "none", home |-> t, poll |-> NoPoll]
Completed(n) ==
    [tab |-> NoTab, pc |-> "done", task |-> n, locked |-> NoUrl,
     phase |-> "generation", reply |-> NoReply,
     promptSent |-> TRUE, downloadClicked |-> TRUE,
     sent |-> 1, outcome |-> "complete", home |-> NoTab, poll |-> NoPoll]

\* A run of the two-task file at a download click: of the first task, or of
\* the second task after the first was written with bytes c.
AtDownload(index, instances, tab, written, hash, ok, nclicks) ==
    /\ loadedTasks = LoadedFile
    /\ taskQueue = LoadedFile
    /\ currentIndex = index
    /\ isRunning = TRUE
    /\ conversationUrl = ConvUrl
    /\ currentTabId = tab
    /\ retryCounts = NoRetries
    /\ skippedCount = 0
    /\ timerActive = TRUE
    /\ uiRunning = TRUE
    /\ statusText = "Generating..."
    /\ threads = EmptyBag
    /\ clicks = nclicks
    /\ storedTask = LoadedFile[index + 1]
    /\ storedLockedUrl = ConvUrl
    /\ tabs = {tab}
    /\ tabLoss = 0
    /\ workers = instances
    /\ msgs = {}
    /\ waits = {}
    /\ lastFileHash = hash
    /\ handlesOk = ok
    /\ source = {}
    /\ pendingDownloads = {}
    /\ output = [f \in TargetsOf(LoadedFile) |->
                    IF f \in DOMAIN written THEN written[f] ELSE Absent]

FirstDownload ==
    \E ok \in BOOLEAN :
        AtDownload(0, <<Downloading(1, <<"a">>)>>, 1, << >>, NoHash, ok, 1)
SecondDownload ==
    \E c \in {"wide", "odd"} :
        AtDownload(1, <<Completed(<<"a">>), Downloading(2, <<"b">>)>>, 2,
                   (filename(<<"a">>) :> c), calculateFileHash(c), TRUE, 1)

InitFiles == FirstDownload \/ SecondDownload

\* The download wait, from the click to the reply, in a source directory that
\* others use too.
NextFiles ==
    \/ \E w \in DOMAIN workers : W_download(w)
    \/ \E w \in DOMAIN workers : W_fileConfirmed(w)
    \/ DownloadLands
    \/ DownloadGrows
    \/ FileAppears
    \/ FileRemoved
    \/ \E wt \in waits : B_start(wt)
    \/ \E wt \in waits : B_poll(wt)
    \/ \E wt \in waits : B_stabilize(wt)
    \/ \E wt \in waits : B_validate(wt)
    \/ \E wt \in waits : B_move(wt)

SpecFiles == InitFiles /\ [][NextFiles]_vars

\* --------------------------------------------------- the generation poll
\* An instance in tab t that has sent the prompt of task n and starts the
\* generation poll with locals p.
Generating(t, n, p) ==
    [Downloading(t, n) EXCEPT !.pc = "generating", !.phase = "generation",
                              !.poll = p]

\* The first task's prompt has been sent: the last conversation container
\* before the send had an id or not (or there was none), and a response
\* container after the prompt anchor was found already or not.
InitPoll ==
    \E lastId \in {NoId, "last"}, found \in {NoContainer, "r1"} :
        AtDownload(0,
                   <<Generating(1, <<"a">>,
                                [NoPoll EXCEPT !.lastContainerIdBeforeSend = lastId,
                                               !.responseContainer = found])>>,
                   1, << >>, NoHash, TRUE, 1)

\* The generation poll alone, on a page that changes between its ticks.
NextPoll == \E w \in DOMAIN workers : W_pollTick(w)

SpecPoll == InitPoll /\ [][NextPoll]_vars

\* The Start handler and an instance up to its skip check.
NextNames ==
    \/ StartClick
    \/ Start_getUrl
    \/ Start_query
    \/ Start_queryActive
    \/ Start_list
    \/ processNextTask_inject
    \/ \E w \in DOMAIN workers : W_settings(w)
    \/ \E w \in DOMAIN workers : W_getTask(w)
    \/ \E w \in DOMAIN workers : W_skipCheck(w)

SpecNames == InitNames /\ [][NextNames]_vars

\* ------------------------------------------- two tasks, one target filename
\* An uploaded file whose two tasks have different names and the same target
\* filename: "a" gets the extension appended, "a.png" is kept as it is.
DuplicateFile == << <<"a">>, <<"a">> \o Png >>

InitDuplicates == InitWith(DuplicateFile, {})

\* The whole system on that file. The file is uploaded once: after a Reset
\* there is nothing to start.
NextDuplicates ==
    \/ StartClick
    \/ Start_getUrl
    \/ Start_query
    \/ Start_queryActive
    \/ Start_list
    \/ StopClick
    \/ ResetClick
    \/ Reset_clear
    \/ Reset_background
    \/ Reset_restore
    \/ processNextTask_inject
    \/ recreateTab_remove
    \/ recreateTab_open
    \/ recreateTab_loaded
    \/ recreateTab_ready
    \/ OnTaskComplete
    \/ OnTaskError
    \/ handleTaskError
    \/ TabLost
    \/ \E w \in DOMAIN workers : W_settings(w)
    \/ \E w \in DOMAIN workers : W_getTask(w)
    \/ \E w \in DOMAIN workers : W_skipCheck(w)
    \/ \E w \in DOMAIN workers : W_waitInput(w)
    \/ \E w \in DOMAIN workers : W_waitSend(w)
    \/ \E w \in DOMAIN workers : W_generating(w)
    \/ \E w \in DOMAIN workers : W_download(w)
    \/ \E w \in DOMAIN workers : W_fileConfirmed(w)
    \/ DownloadLands
    \/ DownloadGrows
    \/ \E wt \in waits : B_start(wt)
    \/ \E wt \in waits : B_poll(wt)
    \/ \E wt \in waits : B_stabilize(wt)
    \/ \E wt \in waits : B_validate(wt)
    \/ \E wt \in waits : B_move(wt)

SpecDuplicates == InitDuplicates /\ [][NextDuplicates]_vars

\* ================================================================ properties
\* An instance that has neither ended nor been destroyed with its tab.
Alive(w) == workers[w].pc \notin Terminal

\* The step retires one suspended handler t.
Resumed(t) == CopiesIn(t, threads') < CopiesIn(t, threads)
\* The step suspends one more handler t.
Started(t) == CopiesIn(t, threads') = CopiesIn(t, threads) + 1

\* ------------------------------------------------------------------------ C1
\* C1: at most one task is in flight in every reachable state: no two
\* content-script instances are running at once (so no tab hosts two), and no
\* two waitForDownloadAndRename calls are running at once.
C1_OneTaskInFlight ==
    /\ Cardinality({w \in DOMAIN workers : Alive(w)}) <= 1
    /\ \A w1, w2 \in DOMAIN workers :
           (w1 # w2 /\ Alive(w1) /\ Alive(w2)) => workers[w1].tab # workers[w2].tab
    /\ Cardinality(waits) <= 1

\* ------------------------------------------------------------------------ C2
\* C2: a TASK_ERROR delivered while the run is active starts handleTaskError
\* whatever its error type; when the handler resumes with the current task's
\* retry count below the maximum it adds one to that count, leaves currentIndex
\* and the queue alone, keeps the run active and starts recreateTab; recreateTab
\* closes the current tab (ending any instance in it), and while the run is
\* active opens a new tab and then stores the task at the unchanged cursor and
\* starts its injection.
C2_ErrorRetried ==
    [][ /\ \A m \in msgs :
              (m.action = "TASK_ERROR" /\ msgs' = msgs \ {m} /\ isRunning)
                  => Started(T("handleTaskError", "settings"))
        /\ (Resumed(T("handleTaskError", "settings"))
                /\ retryCounts[currentIndex] < MaxRetries)
              => /\ retryCounts' =
                        [retryCounts EXCEPT ![currentIndex] = retryCounts[currentIndex] + 1]
                 /\ currentIndex' = currentIndex
                 /\ taskQueue' = taskQueue
                 /\ isRunning' = isRunning
                 /\ Started(T("recreateTab", "remove"))
        /\ Resumed(T("recreateTab", "remove"))
              => /\ currentTabId \notin tabs'
                 /\ \A w \in DOMAIN workers :
                        (Alive(w) /\ workers[w].tab = currentTabId)
                            => workers'[w].pc = "killed"
                 /\ Started(T("recreateTab", "interval"))
        /\ (Resumed(T("recreateTab", "interval")) /\ isRunning)
              => \/ /\ currentTabId' \in tabs' \ tabs
                    /\ currentTabId' # currentTabId
                    /\ Started(T("recreateTab", "loading"))
                 \/ /\ ~isRunning'
                    /\ statusText' = "Error: Could not create Gemini tab"
        /\ (Resumed(T("recreateTab", "settle")) /\ isRunning
                /\ currentIndex < Len(taskQueue))
              => /\ storedTask' = taskQueue[currentIndex + 1]
                 /\ currentIndex' = currentIndex
                 /\ Started(T("processNextTask", "inject"))
      ]_vars

\* C2 witness: in a run started once, the first instance failed, the retry was
\* counted without moving the cursor, and a second instance, in a new tab, has
\* read the same task.
C2_Witness ==
    /\ clicks = 1
    /\ isRunning
    /\ Len(workers) = 2
    /\ workers[1].outcome = "error"
    /\ workers[2].task = workers[1].task
    /\ workers[2].task # NoTask
    /\ workers[2].tab \notin {NoTab, 1}
    /\ currentIndex = 0
    /\ retryCounts[0] = 1

\* ------------------------------------------------------------------------ C3
\* C3: no task's retry count ever exceeds the maximum, and each increment of a
\* count is by one and starts exactly one recreateTab, so a task is recreated
\* and re-dispatched at most MaxRetries times; when handleTaskError resumes
\* with the current task's count at the maximum it halts the run (isRunning
\* false, buttons restored, the error shown) without moving the cursor and
\* without starting another recreateTab.
C3_RetriesBounded ==
    /\ [](\A i \in Indices : retryCounts[i] <= MaxRetries)
    /\ [][ /\ \A i \in Indices :
                 retryCounts'[i] > retryCounts[i]
                     => /\ retryCounts'[i] = retryCounts[i] + 1
                        /\ i = currentIndex
                        /\ Resumed(T("handleTaskError", "settings"))
                        /\ Started(T("recreateTab", "remove"))
           /\ (Resumed(T("handleTaskError", "settings"))
                   /\ retryCounts[currentIndex] >= MaxRetries)
                 => /\ ~isRunning'
                    /\ ~uiRunning'
                    /\ statusText' = "Error: task failed"
                    /\ currentIndex' = currentIndex
                    /\ retryCounts' = retryCounts
                    /\ ~Started(T("recreateTab", "remove"))
         ]_vars

\* C3 witness: a run started once has halted on the first task after
\* MaxRetries retries and MaxRetries + 1 failed instances.
C3_Witness ==
    /\ clicks = 1
    /\ ~isRunning
    /\ statusText = "Error: task failed"
    /\ currentIndex = 0
    /\ retryCounts[0] = MaxRetries
    /\ Len(workers) = MaxRetries + 1
    /\ \A w \in DOMAIN workers : workers[w].outcome = "error"

\* ------------------------------------------------------------------------ C4
\* C4: the delivery of a TASK_COMPLETE clears the current task's retry count
\* and moves the cursor forward by exactly one; and only the task at the cursor
\* ever has a non-zero count, so the task the cursor moves to starts at zero.
C4_CompletionResetsRetries ==
    /\ [](\A i \in Indices : i # currentIndex => retryCounts[i] = 0)
    /\ [][ \A m \in msgs :
               (m.action = "TASK_COMPLETE" /\ msgs' = msgs \ {m})
                   => /\ currentIndex' = currentIndex + 1
                      /\ retryCounts'[currentIndex] = 0
                      /\ retryCounts'[currentIndex'] = 0
         ]_vars

\* C4 witness: in a run started once the first task failed, was retried and
\* then completed; the cursor is on the second task and no count is left.
C4_Witness ==
    /\ clicks = 1
    /\ isRunning
    /\ Len(workers) = 2
    /\ workers[1].outcome = "error"
    /\ workers[2].outcome = "complete"
    /\ msgs = {}
    /\ currentIndex = 1
    /\ retryCounts = NoRetries

\* ------------------------------------------------------------------------ C5
\* C5: whenever the panel shows "All Tasks Completed!", every task of the queue
\* was reported complete (generated or skipped) by an instance that ran that
\* task.
C5_AllCompletedMeansEveryTaskDone ==
    statusText = "All Tasks Completed!"
        => \A i \in 1..Len(taskQueue) :
               \E w \in DOMAIN workers :
                   /\ workers[w].task = taskQueue[i]
                   /\ workers[w].outcome \in {"complete", "skipped"}

\* ------------------------------------------------------------------------ C6
\* C6: while the run is active a result is always still on its way: an
\* instance is running, an outcome notice is in flight, or a panel handler is
\* suspended at an await that will resume. A run that is active with none of
\* these stays "running" for ever.
C6_RunningHasResultPending ==
    isRunning => \/ \E w \in DOMAIN workers : Alive(w)
                 \/ msgs # {}
                 \/ threads # EmptyBag

\* ------------------------------------------------------------------------ C7
\* C7: once Stop has been pressed (and until the next Start), no instance
\* sends a prompt or clicks the download control, and no file is written to
\* the output directory.
C7_StopCancelsRemainingSteps ==
    [][ statusText = "Stopped by user"
          => /\ \A w \in DOMAIN workers :
                    /\ workers'[w].promptSent = workers[w].promptSent
                    /\ workers'[w].downloadClicked = workers[w].downloadClicked
             /\ output' = output
      ]_vars

\* ------------------------------------------------------------------------ C8
\* C8: no instance sends more than one outcome notice, and an instance whose
\* code has run to its end, normally or by an exception, has sent exactly one.
C8_ExactlyOneOutcome ==
    \A w \in DOMAIN workers :
        /\ workers[w].sent <= 1
        /\ workers[w].pc \in {"done", "crashed"} => workers[w].sent = 1

\* ------------------------------------------------------------------------ C9
\* A step of instance w itself, or of the background call it is waiting on.
InstanceStep(w) ==
    \/ W_settings(w)
    \/ W_getTask(w)
    \/ W_skipCheck(w)
    \/ W_waitInput(w)
    \/ W_waitSend(w)
    \/ W_generating(w)
    \/ W_download(w)
    \/ W_fileConfirmed(w)
    \/ \E wt \in waits :
           /\ wt.w = w
           /\ (B_start(wt) \/ B_poll(wt) \/ B_stabilize(wt) \/ B_validate(wt))

\* C9: every wait of a running instance ends by itself: in every reachable
\* state the instance, or the background call it waits on, can take a step that
\* changes the state, whatever the page and the download do. A wait whose next
\* turn changes nothing counts no time and has no timeout to end it.
C9_EveryWaitIsBounded ==
    \A w \in DOMAIN workers : Alive(w) => ENABLED <<InstanceStep(w)>>_vars

\* ----------------------------------------------------------------------- C10
\* C10: no two waitForDownloadAndRename calls run at once, and the download
\* control is clicked for a task by at most one instance.
C10_OneDownloadWaitPerTask ==
    /\ \A x, y \in waits : x = y
    /\ \A w1, w2 \in DOMAIN workers :
           (w1 # w2 /\ workers[w1].downloadClicked /\ workers[w2].downloadClicked)
               => workers[w1].task # workers[w2].task

\* -------------------------------------------- waitForDownloadAndRename steps
\* The call wt returns in this step.
Returned(wt) == wt \in waits /\ \A x \in waits' : x.w # wt.w
\* The instance that sent WAIT_AND_RENAME is still there to get the reply.
Awaited(wt) == workers[wt.w].pc = "waitFile"
\* The candidate file of wt, as a set: empty if it is gone.
Candidate(wt) == {f \in source : f.id = wt.cand}

\* ----------------------------------------------------------------------- C11
\* C11: when the call validates a candidate whose bytes hash to the recorded
\* hash, it returns at that step: it deletes the candidate from the source,
\* leaves the output directory and the recorded hash as they are, and replies
\* with the duplicate failure; and a call that replies success has recorded
\* the hash of the bytes it wrote, so the next download with the same bytes is
\* such a duplicate.
C11_DuplicateRejected ==
    [][ \A wt \in waits :
          /\ \A f \in Candidate(wt) :
                (/\ wt.pc = "validate"
                 /\ wt \notin waits'
                 /\ lastFileHash = <<"sha256", f.content>>)
                  => /\ Returned(wt)
                     /\ source' = source \ {f}
                     /\ output' = output
                     /\ lastFileHash' = lastFileHash
                     /\ Awaited(wt) => workers'[wt.w].reply = Failure("duplicate")
          /\ (Returned(wt) /\ Awaited(wt) /\ workers'[wt.w].reply.success)
                => /\ output'[wt.target] = wt.bytes
                   /\ lastFileHash' = <<"sha256", wt.bytes>>
      ]_vars

\* C11 witness: the first instance completed with a written file, and the
\* second, having downloaded the same bytes, is told "duplicate": its download
\* is gone from the source and only the first file is in the output.
C11_Witness ==
    /\ Len(workers) = 2
    /\ workers[1].outcome = "complete"
    /\ workers[2].pc = "waitFile"
    /\ workers[2].reply = Failure("duplicate")
    /\ source = {}
    /\ \E g \in DOMAIN output :
          /\ lastFileHash = <<"sha256", output[g]>>
          /\ \A h \in DOMAIN output \ {g} : output[h] = Absent

\* ----------------------------------------------------------------------- C12
\* C12: a call that replies success has, at that step, written the
\* candidate's bytes under its target filename and changed no other output
\* file, has deleted the candidate from the source, has recorded the hash of
\* those bytes, and replies {success, filename: targetFilename}; the target
\* filename is the one derived from the task of the asking instance.
C12_SuccessMovesFile ==
    [][ \A wt \in waits :
          (Returned(wt) /\ Awaited(wt) /\ workers'[wt.w].reply.success)
            => /\ wt.pc = "move"
               /\ wt.target = filename(workers[wt.w].task)
               /\ \E f \in Candidate(wt) :
                     /\ output' = [output EXCEPT ![wt.target] = f.content]
                     /\ source' = source \ {f}
                     /\ lastFileHash' = <<"sha256", f.content>>
               /\ Awaited(wt) => workers'[wt.w].reply = Success(wt.target)
      ]_vars

\* C12 witness: an instance has the success reply for its own target filename,
\* the file is in the output directory with the recorded hash, and the source
\* directory is empty again.
C12_Witness ==
    \E w \in DOMAIN workers :
        /\ workers[w].pc = "waitFile"
        /\ workers[w].reply = Success(filename(workers[w].task))
        /\ output[filename(workers[w].task)] \in Contents
        /\ lastFileHash = <<"sha256", output[filename(workers[w].task)]>>
        /\ source = {}

NearSquare(width, height) ==
    LET d == IF width >= height THEN width - height ELSE height - width
    IN  100 * d < 15 * height

\* C14: a call that validates a candidate of width w and height h with
\* |w/h - 1| < 0.15 deletes it, writes nothing and replies failure; for every
\* other ratio it goes on to the hash step: it replies the duplicate failure
\* or goes on to move the file.
C14_AspectRatioGate ==
    [][ \A wt \in waits : \A f \in Candidate(wt) :
          (wt.pc = "validate" /\ wt \notin waits' /\ Awaited(wt))
            => IF NearSquare(Width(f.content), Height(f.content))
               THEN /\ Returned(wt)
                    /\ source' = source \ {f}
                    /\ output' = output
                    /\ workers'[wt.w].reply = Failure("aspect-ratio")
               ELSE \/ Returned(wt) /\ workers'[wt.w].reply = Failure("duplicate")
                    \/ \E x \in waits' : x.w = wt.w /\ x.pc = "move"
      ]_vars

\* ----------------------------------------------------------------------- C15
\* C15: a call still polling when the configured timeout has elapsed returns
\* at its next step; a call that returns from the poll loop does so only then,
\* replies the timeout failure and leaves both directories and the recorded
\* hash as they are; and no call polls beyond the timeout.
C15_TimeoutFailure ==
    /\ [](\A wt \in waits :
            wt.pc = "poll" => wt.elapsed <= DownloadTimeoutTicks * PollInterval)
    /\ [][ \A wt \in waits :
             /\ (wt.pc = "poll" /\ Returned(wt))
                  => /\ wt.elapsed >= DownloadTimeoutTicks * PollInterval
                     /\ Awaited(wt) => workers'[wt.w].reply = Failure("timeout")
                     /\ source' = source
                     /\ output' = output
                     /\ lastFileHash' = lastFileHash
             /\ (wt.pc = "poll" /\ wt.elapsed >= DownloadTimeoutTicks * PollInterval
                   /\ wt \notin waits')
                  => Returned(wt)
         ]_vars

\* C15 witness: the download never reached the source directory and the
\* instance has the timeout failure.
C15_Witness ==
    \E w \in DOMAIN workers :
        /\ workers[w].pc = "waitFile"
        /\ workers[w].reply = Failure("timeout")
        /\ w \in pendingDownloads
        /\ source = {}
        /\ lastFileHash = NoHash

\* ----------------------------------------------------------------------- C16
\* C16: the RESET_STATE handler leaves no recorded hash; with no recorded hash
\* no call replies the duplicate failure; and a hash is recorded only by a
\* call that replies success. So the first download validated after a reset
\* is not rejected as a duplicate.
C16_ResetClearsHash ==
    [][ /\ Resumed(T("reset", "background")) => lastFileHash' = NoHash
        /\ \A wt \in waits :
              (Returned(wt) /\ Awaited(wt) /\ lastFileHash = NoHash)
                  => workers'[wt.w].reply # Failure("duplicate")
        /\ (lastFileHash' # lastFileHash /\ lastFileHash' # NoHash)
              => \E wt \in waits :
                    /\ Returned(wt)
                    /\ Awaited(wt) => workers'[wt.w].reply = Success(wt.target)
      ]_vars

\* C16 witness: two files with the same bytes are in the output directory,
\* which the duplicate test allows only with a reset between the two
\* downloads.
C16_Witness ==
    /\ statusText = "Reset complete - Load new tasks to start"
    /\ \E g, h \in DOMAIN output :
          /\ g # h
          /\ output[g] = output[h]
          /\ output[g] \in Contents

\* ----------------------------------------------------------------------- C17
\* q is the sub-list of l, in the order of l, of exactly the elements that
\* satisfy Keep.
IsSelection(q, l, Keep(_)) ==
    \E at \in [1..Len(q) -> 1..Len(l)] :
        /\ \A i, j \in 1..Len(q) : i < j => at[i] < at[j]
        /\ \A i \in 1..Len(q) : q[i] = l[at[i]]
        /\ {at[i] : i \in 1..Len(q)} = {j \in 1..Len(l) : Keep(l[j])}

\* C17 as stated: the queue the Start handler builds is the sub-list of the
\* loaded tasks, in their order, of exactly the tasks whose derived filename is
\* not in the listing.
C17_QueueIsAbsentTasks ==
    [][ Resumed(T("start", "list"))
          => IsSelection(taskQueue', loadedTasks,
                         LAMBDA n : filename(n) \notin listAllFilesFS)
      ]_vars

\* C17 amended: the queue the Start handler builds is the sub-list of the
\* loaded tasks, in their order, of exactly the tasks that have a non-empty
\* name and whose derived filename is not in the listing.
C17_QueueIsNamedAbsentTasks ==
    [][ Resumed(T("start", "list"))
          => IsSelection(taskQueue', loadedTasks,
                         LAMBDA n : n # << >> /\ filename(n) \notin listAllFilesFS)
      ]_vars

\* C17 witness: of two loaded tasks one is queued; the other's file was in the
\* listing.
C17_Witness ==
    /\ isRunning
    /\ Len(loadedTasks) = 2
    /\ Len(taskQueue) = 1
    /\ taskQueue[1] = loadedTasks[2]
    /\ filename(loadedTasks[1]) \in listAllFilesFS
    /\ filename(loadedTasks[2]) \notin listAllFilesFS

\* ----------------------------------------------------------------------- C18
\* f matches ^[A-Za-z0-9_.-]+\.(png|jpg)$
MatchesPattern(f) ==
    /\ Len(f) >= 5
    /\ SubSeq(f, Len(f) - 3, Len(f)) \in {Png, Jpg}
    /\ \A i \in 1..(Len(f) - 4) :
          f[i] \in {"a", "b", "p", "n", "g", "j", "B", "P", "N", "G", "J",
                    "0", "_", "-", "."}

\* C18: for every task an instance has read, the filename the instance derives
\* is the one the Start handler's filter derived, and it matches
\* ^[A-Za-z0-9_.-]+\.(png|jpg)$.
C18_DerivedFilenames ==
    \A w \in DOMAIN workers :
        workers[w].task # NoTask
            => /\ filename(workers[w].task) = safeName(workers[w].task)
               /\ MatchesPattern(filename(workers[w].task))

\* ----------------------------------------------------------------------- C19
\* The three ways a step ends a run.
EndsAllCompleted ==
    /\ statusText' = "All Tasks Completed!"
    /\ currentIndex' >= Len(taskQueue')
    /\ clicks' = clicks
EndsStoppedByUser ==
    /\ clicks' = clicks + 1
    /\ retryCounts' = NoRetries
EndsFatalError ==
    /\ statusText' \in {"Error: No active Gemini tab",
                        "Error: Please refresh Gemini page",
                        "Error: Could not create Gemini tab",
                        "Error: task failed"}
    /\ clicks' = clicks

\* Every instance that has ended has reported exactly one outcome.
EveryEndReported ==
    \A w \in DOMAIN workers : workers[w].pc \in Terminal => workers[w].sent = 1

\* Something is still to happen in the run: an instance is at work, an outcome
\* notice is undelivered, or a panel handler is suspended at an await.
RunContinues ==
    \/ \E w \in DOMAIN workers : Alive(w)
    \/ msgs # {}
    \/ threads # EmptyBag

\* C19: while every ended instance has reported one outcome, a Running run
\* always has a continuation pending (it cannot stay Running with nothing left
\* to happen); every step that leaves Running ends the run in exactly one of
\* all-completed, stopped-by-user and stopped-by-fatal-error; and a run that
\* has left Running is not ended a second time: no step taken when not Running
\* reports all-completed or a fatal error.
C19_RunEndsInOneOutcome ==
    /\ [](isRunning /\ EveryEndReported => RunContinues)
    /\ [][ isRunning /\ ~isRunning'
             => \/ EndsAllCompleted /\ ~EndsStoppedByUser /\ ~EndsFatalError
                \/ ~EndsAllCompleted /\ EndsStoppedByUser /\ ~EndsFatalError
                \/ ~EndsAllCompleted /\ ~EndsStoppedByUser /\ EndsFatalError
       ]_vars
    /\ [][ ~isRunning /\ statusText' # statusText
             => ~EndsFatalError /\ statusText' # "All Tasks Completed!"
       ]_vars

\* ----------------------------------------------------------------------- C20
\* The end-to-end scenario: the list [a, b] is loaded, the only click is
\* Start, no tab is closed from outside, every instance succeeds and the
\* browser does not fail the panel.
Succeeds(w) ==
    /\ workers[w].outcome \in {"none", "complete"}
    /\ workers[w].pc # "crashed"
    /\ workers[w].pc = "killed" => workers[w].sent = 1
EndToEnd ==
    /\ loadedTasks = LoadedFile
    /\ clicks <= 1
    /\ tabLoss = 0
    /\ \A w \in DOMAIN workers : Succeeds(w)
    /\ statusText \notin {"Error: No active Gemini tab",
                          "Error: Please refresh Gemini page",
                          "Error: Could not create Gemini tab",
                          "Error: task failed"}

\* C20: in the end-to-end scenario the queue, once built, is [a, b]; the first
\* instance works on a and the second on b, after a has completed; the tab the
\* run started in is destroyed once and one new tab is created, after a has
\* completed and before b is dispatched, and no tab is destroyed or created
\* otherwise; skippedCount stays 0; and when the run is over it is
\* all-completed with both tasks done.
C20_TwoTaskRun ==
    /\ [](EndToEnd =>
            /\ taskQueue \in {<< >>, LoadedFile}
            /\ skippedCount = 0
            /\ Len(workers) <= 2
            /\ Len(workers) >= 1 => workers[1].task \in {NoTask, <<"a">>}
            /\ Len(workers) = 2 =>
                  /\ workers[2].task \in {NoTask, <<"b">>}
                  /\ workers[1].outcome = "complete"
                  /\ tabs = {2}
                  /\ currentTabId = 2
            /\ Len(workers) <= 1 /\ (Len(workers) = 1 => Alive(1)) =>
                  /\ tabs = {1}
                  /\ currentTabId \in {NoTab, 1}
            /\ taskQueue # << >> /\ ~isRunning =>
                  /\ statusText = "All Tasks Completed!"
                  /\ currentIndex = 2
                  /\ Len(workers) = 2
                  /\ workers[2].outcome = "complete")
    /\ [][ EndToEnd' /\ tabs' # tabs
             => /\ Len(workers) = 1
                /\ workers[1].outcome = "complete"
                /\ \/ tabs = {1} /\ tabs' = {}
                   \/ tabs = {} /\ tabs' = {2}
       ]_vars

\* C20 witness: the scenario has run to its end: both files written, the
\* second instance ran in the one new tab, the run is all-completed.
C20_Witness ==
    /\ EndToEnd
    /\ clicks = 1
    /\ ~isRunning
    /\ statusText = "All Tasks Completed!"
    /\ taskQueue = LoadedFile
    /\ Len(workers) = 2
    /\ workers[1].outcome = "complete"
    /\ workers[2].outcome = "complete"
    /\ output[filename(<<"a">>)] # Absent
    /\ output[filename(<<"b">>)] # Absent
    /\ skippedCount = 0
    /\ tabs = {2}

\* ----------------------------------------------------------------------- C21
\* The run has halted on a fatal error and the panel still shows it.
HaltedOnFatalError ==
    /\ ~isRunning
    /\ statusText \in {"Error: No active Gemini tab",
                       "Error: Please refresh Gemini page",
                       "Error: Could not create Gemini tab",
                       "Error: task failed"}

\* C21: the step that halts the run on a fatal error leaves currentIndex as it
\* is, and while the run is halted on a fatal error no step other than a
\* click of the user changes currentIndex.
C21_IndexKeptAfterFatalError ==
    [][ /\ isRunning /\ ~isRunning' /\ EndsFatalError
            => currentIndex' = currentIndex
        /\ HaltedOnFatalError /\ clicks' = clicks
            => currentIndex' = currentIndex
      ]_vars

\* ----------------------------------------------------------------------- C22
\* C22: the recorded hash follows the writes to the output directory: a step
\* that writes a file there records the SHA-256 of the bytes written, and a
\* step that changes the recorded hash either clears it or is the return of a
\* call that has written, under its target filename, the bytes with that hash.
\* So the hash is empty or that of the file most recently written.
C22_HashOfLastWrite ==
    [][ /\ output' # output
            => \E g \in DOMAIN output :
                  /\ output'[g] # output[g]
                  /\ lastFileHash' = <<"sha256", output'[g]>>
        /\ lastFileHash' # lastFileHash
            => \/ lastFileHash' = NoHash
               \/ \E wt \in waits :
                     /\ Returned(wt)
                     /\ lastFileHash' = <<"sha256", output'[wt.target]>>
      ]_vars

\* ----------------------------------------------------------------------- C23
\* C23: a call that returns a failure has left the output directory as it was
\* when the call began: the returning step does not change it, and no earlier
\* step of the call did (only a step that replies success writes).
C23_FailureWritesNothing ==
    [][ \A wt \in waits :
          /\ (Returned(wt) /\ Awaited(wt) /\ ~workers'[wt.w].reply.success)
                => output' = output
          /\ (wt \notin waits' /\ ~Returned(wt)) => output' = output
      ]_vars

\* ----------------------------------------------------------------------- C24
\* The widening threshold min(timeout, max(timeout / 10, 5 poll intervals)) has
\* elapsed at time e.
Widened(e) ==
    LET timeout == DownloadTimeoutTicks * PollInterval IN
    \/ e >= timeout
    \/ 10 * e >= timeout /\ e >= 5 * PollInterval

C25_BaselineFilesUntouched ==
    /\ [](\A wt \in waits : wt.cand # 0 => wt.cand \notin wt.found)
    /\ [][ \A wt \in waits :
             wt \notin waits'
               => /\ \A f \in source \ source' :
                        f.id = wt.cand /\ f.id \notin wt.found
                  /\ \A x \in waits' :
                        (x.w = wt.w /\ x.bytes # wt.bytes)
                          => \E f \in Candidate(wt) : x.bytes = f.content
                  /\ output' # output
                        => output' = [output EXCEPT ![wt.target] = wt.bytes]
         ]_vars

\* C25 witness: a call is moving its candidate while a complete Gemini-named
\* image that was there at the baseline snapshot is still in the source
\* directory.
C25_Witness ==
    \E wt \in waits :
        /\ wt.pc = "move"
        /\ \E f \in source :
              /\ f.id \in wt.found
              /\ f.id # wt.cand
              /\ f.image
              /\ f.gemini
              /\ f.size > 0

\* ----------------------------------------------------------------------- C26
\* Instance w gets the reply to its skip check at this step (it is not
\* destroyed with its tab instead).
SkipChecked(w) ==
    workers[w].pc = "skipCheck" /\ workers'[w].pc \in {"done", "waitInput"}

\* C26: when an instance makes its skip check with the output handle present
\* and authorised, the file is reported to exist exactly when a file of that
\* name is in the output directory; with the handle missing or its permission
\* revoked the instance fails with a folder error and does not go on to
\* generate.
C26_FolderConditionSignalled ==
    [][ \A w \in DOMAIN workers :
          SkipChecked(w)
            => IF handlesOk
               THEN workers'[w].outcome = "skipped"
                      <=> /\ filename(workers[w].task) \in DOMAIN output
                          /\ output[filename(workers[w].task)] # Absent
               ELSE /\ workers'[w].outcome = "error"
                    /\ \E m \in msgs' \ msgs :
                          /\ m.from = w
                          /\ m.action = "TASK_ERROR"
                          /\ m.errorType = "folder"
      ]_vars

Dispatched == Len(workers') = Len(workers) + 1

\* C27: a TASK_COMPLETE handled in an active run with tasks remaining, and
\* every counted retry, starts recreateTab; recreateTab removes the current
\* tab, waits the inter-task interval, opens a new tab, waits for the page
\* load or its timeout, then the settle delay, and only then starts the next
\* injection: apart from the first injection of a run (started by the Start
\* handler) an injection is started only when the settle delay ends; and the
\* tab an injection goes into has received no other injection since the run
\* began.
C27_TabRecreatedBeforeDispatch ==
    [][ /\ \A m \in msgs :
              (m.action = "TASK_COMPLETE" /\ msgs' = msgs \ {m} /\ isRunning
                  /\ currentIndex + 1 < Len(taskQueue))
                  => Started(T("recreateTab", "remove"))
        /\ retryCounts'[currentIndex] > retryCounts[currentIndex]
              => Started(T("recreateTab", "remove"))
        /\ Resumed(T("recreateTab", "remove"))
              => /\ currentTabId \notin tabs'
                 /\ Started(T("recreateTab", "interval"))
        /\ (Resumed(T("recreateTab", "interval")) /\ isRunning /\ isRunning')
              => /\ currentTabId' \in tabs' \ tabs
                 /\ currentTabId' # currentTabId
                 /\ Started(T("recreateTab", "loading"))
        /\ Started(T("recreateTab", "loading"))
              => Resumed(T("recreateTab", "interval"))
        /\ Resumed(T("recreateTab", "loading"))
              => Started(T("recreateTab", "settle"))
        /\ Started(T("recreateTab", "settle"))
              => Resumed(T("recreateTab", "loading"))
        /\ Started(T("processNextTask", "inject"))
              => \/ Resumed(T("start", "list"))
                 \/ Resumed(T("recreateTab", "settle"))
        /\ Dispatched
              => \A w \in DOMAIN workers : workers[w].home # currentTabId
      ]_vars

\* ----------------------------------------------------------------------- C29
\* C29: an instance leaves the generation poll for the download only on a tick
\* that read a target container which is not busy, holds an enabled download
\* button, and holds a loaded image that was not on the page before the
\* prompt was sent.
C29_ProceedsOnNewImage ==
    \A w \in DOMAIN workers :
        workers[w].pc = "download"
            => LET page == workers[w].poll.saw IN
               /\ ~page.busy
               /\ page.buttons
               /\ ImagesIn(page, {"hidden", "shown"}) \cap NewSrcs # {}

\* ----------------------------------------------------------------------- C30
\* The step ends instance w in failure.
Fails(w) ==
    /\ workers[w].pc \notin Terminal
    /\ \/ workers'[w].pc = "crashed"
       \/ workers'[w].outcome = "error"

\* The classification the stated rule gives the failure of instance w at the
\* step it is at: the type of the TaskError thrown there (locked-url at the
\* URL checks, generation when no download button is found, folder or download
\* for a failed rename), and for a plain Error the phase.
Expected(w) ==
    CASE workers[w].pc = "skipCheck" -> "locked-url"
      [] workers[w].pc = "download" -> "generation"
      [] workers[w].pc = "waitFile" ->
            IF workers[w].reply.error \in {"missing-handles", "iteration-unsupported"}
            THEN "folder" ELSE "download"
      [] OTHER -> IF workers[w].phase = "download" THEN "download" ELSE "generation"

\* C30: every step that ends an instance in failure sends exactly one
\* TASK_ERROR notice from that instance, and the notice carries the
\* classification of the stated rule.
C30_FailureClassified ==
    [][ \A w \in DOMAIN workers :
            Fails(w) =>
                /\ Cardinality({m \in msgs' \ msgs : m.from = w}) = 1
                /\ \A m \in msgs' \ msgs :
                       m.from = w => /\ m.action = "TASK_ERROR"
                                     /\ m.errorType = Expected(w)
      ]_vars

\* ----------------------------------------------------------------------- C31
\* C31: an instance dispatched by a run whose conversation URL was taken from
\* the active tab, no locked URL being stored, is not failed for lacking a
\* locked URL: the step that ends it in failure does not report "locked-url".
C31_ActiveTabUrlRuns ==
    [][ \A w \in DOMAIN workers :
            (/\ Fails(w)
             /\ workers[w].task # NoTask
             /\ workers[w].locked = NoUrl
             /\ conversationUrl = ConvUrl)
                => \A m \in msgs' \ msgs :
                       m.from = w => m.errorType # "locked-url"
      ]_vars

\* ----------------------------------------------------------------------- C32
\* C32: when the Reset handler finishes (its last step, updateUI(false), is
\* taken), the run is not active, the queue is empty, the cursor is 0, no tab
\* id and no conversation URL are held, no retry is counted, nothing is
\* counted as skipped and the file service records no hash; and the step that
\* handles Stop leaves the run inactive with no retry counted and nothing
\* counted as skipped.
C32_StateResetOnStopAndReset ==
    [][ /\ Resumed(T("reset", "restore"))
              => /\ ~isRunning'
                 /\ taskQueue' = << >>
                 /\ currentIndex' = 0
                 /\ currentTabId' = NoTab
                 /\ conversationUrl' = NoUrl
                 /\ retryCounts' = NoRetries
                 /\ skippedCount' = 0
                 /\ lastFileHash' = NoHash
        /\ (uiRunning /\ clicks' = clicks + 1 /\ statusText' = "Stopped by user")
              => /\ ~isRunning'
                 /\ retryCounts' = NoRetries
                 /\ skippedCount' = 0
      ]_vars

\* ----------------------------------------------------------------------- C33
\* The cursor is within the queue, or just past its end.
CursorInQueue == 0 <= currentIndex /\ currentIndex <= Len(taskQueue)

\* A step of an active run leaves the queue alone, and moves the cursor only
\* by one, on handling one TASK_COMPLETE.
QueueFixedWhileRunning ==
    (isRunning /\ isRunning')
        => /\ taskQueue' = taskQueue
           /\ currentIndex' # currentIndex
                 => /\ currentIndex' = currentIndex + 1
                    /\ \E m \in msgs : m.action = "TASK_COMPLETE" /\ msgs' = msgs \ {m}

\* C33: in every reachable state 0 <= currentIndex <= Len(taskQueue), and
\* while a run is active the queue is not modified and the cursor changes
\* only by increasing by one per TASK_COMPLETE.
C33_CursorWithinQueue == []CursorInQueue /\ [][QueueFixedWhileRunning]_vars

\* ----------------------------------------------------------------------- C34
\* C34: the elapsed-time ticker is set exactly while the run is active, and
\* every step that ends the run clears it.
C34_TickerOnlyWhileRunning ==
    /\ [](timerActive <=> isRunning)
    /\ [][(isRunning /\ ~isRunning') => ~timerActive']_vars

\* ----------------------------------------------------------------------- C35
\* C35: the file produced by an instance's download click can be detected by
\* the download wait that instance asked for: it is never part of that wait's
\* baseline snapshot, whose files the poll passes over.
C35_OwnDownloadDetectable ==
    \A wt \in waits : wt.w \notin wt.baseline

\* ----------------------------------------------------------------------- C36
\* C36: a download wait writes to the output directory only the file its own
\* instance's download click produced.
C36_WritesOwnDownload ==
    [][ \A wt \in waits :
            (wt.pc = "move" /\ wt \notin waits' /\ output' # output)
                => wt.cand = wt.w
      ]_vars

\* C37: no file of the output directory is written over: a write goes to a
\* name under which nothing is stored, so the file written for the earlier of
\* two tasks with one target filename stays as it was; and an instance whose
\* skip check finds its target filename in the output directory reports its
\* task as skipped.
C37_NoFileWrittenTwice ==
    [][ /\ \A f \in DOMAIN output : output'[f] # output[f] => output[f] = Absent
        /\ \A w \in DOMAIN workers :
              (/\ workers[w].pc = "skipCheck" /\ workers'[w].pc # "skipCheck"
               /\ workers'[w].pc # "killed"
               /\ filename(workers[w].task) \in DOMAIN output
               /\ output[filename(workers[w].task)] # Absent)
                  => \E m \in msgs' \ msgs :
                        m.from = w /\ m.action = "TASK_COMPLETE" /\ m.skipped ]_vars

\* C38: a move to the output directory writes bytes that were decoded as an
\* image and whose width and height are outside the failure band,
\* |width / height - 1| < 0.15.
C38_OnlyDecodedImagesMoved ==
    [][ \A wt \in waits :
            (wt.pc = "move" /\ wt \notin waits')
                => /\ Decodes(wt.bytes)
                   /\ ~NearSquare(Width(wt.bytes), Height(wt.bytes)) ]_vars

\* C38, amended: a move writes bytes that could not be decoded, or whose
\* decoded width and height are outside the failure band.
C38_NoDecodedSquareMoved ==
    [][ \A wt \in waits :
            (wt.pc = "move" /\ wt \notin waits')
                => (Decodes(wt.bytes)
                        => ~NearSquare(Width(wt.bytes), Height(wt.bytes))) ]_vars

\* Bytes that are no image are stored under a target filename.
C38_Witness ==
    \E g \in DOMAIN output : output[g] = Undecodable

\* Stop was the last click and no Start handler has begun since.
StoppedByUser ==
    /\ ~isRunning
    /\ statusText = "Stopped by user"
    /\ \A t \in BagToSet(threads) : t.kind # "start"

\* C39: between a Stop and the next Start no step opens a tab and no step
\* injects a content-script instance.
C39_StoppedCreatesNothing ==
    [][ StoppedByUser => /\ tabs' \subseteq tabs
                         /\ Len(workers') = Len(workers) ]_vars

\* C40: no step of the Reset handler changes the locked conversation URL that
\* is stored, which is the URL the next Start reads and uses: what was locked
\* before the Reset is still stored when the handler has finished.
C40_LockedUrlSurvivesReset ==
    [][ \A pc \in {"clear", "background", "restore"} :
            Resumed(T("reset", pc)) => storedLockedUrl' = storedLockedUrl ]_vars
====
